---- MODULE Spec2Model ----
(***************************************************************************)
(* Model of the extrinsic/call inspection components of sander2/apps:      *)
(*   - extractState and the Call component (react-components Call.tsx,     *)
(*     kept as src/unnamed/part_001),                                      *)
(*   - the ProposedAction component (react-components ProposedAction.tsx). *)
(*                                                                         *)
(* JavaScript values are tagged records (field t is the tag), so that      *)
(* null, undefined, strings, booleans, numbers and objects stay distinct   *)
(* and comparable.                                                         *)
(***************************************************************************)
EXTENDS Integers, Sequences, FiniteSets, TLC

VARIABLES
  exIn,          \* the arguments of one call of extractState
  exOut,         \* its outcome: NotCalled, an Extracted or a TypeError
  props,         \* the props of the last render of Call
  extracted,     \* the Extracted state held by useState
  pc,            \* "effect": a render is committed and its effect pending;
                 \* "rerender": setExtracted has scheduled a render;
                 \* "idle": rendered and settled; "crashed": an exception
                 \* left the component; "off": not mounted
  view,          \* what the last render of Call returned
  onErrorCalls,  \* how often Call has invoked props.onError (it only hands
                 \* it on to Params, line 106)
  paProps,       \* the props of the last render of ProposedAction
  paView,        \* what that render returned
  qrEnv,         \* QrModal: useApi() and useIpfs() (isEthereum, genesisHash, isIpfs)
  nameState,     \* QrModal: { isNameValid, name }
  addressState,  \* QrModal: { address, isAddress, scanned, warning }
  passwordState, \* QrModal: { isPasswordValid, password }
  qrOut,         \* QrModal: what has left the modal: the keyring call, the
                 \* last value set, the status reported, whether it was
                 \* closed, and an exception left uncaught by a handler
  prEnv,         \* Propose: what useApi() offers (minimumDeposit, the pallets
                 \* with notePreimage, the arity of democracy.propose)
  accountId,     \* Propose: useState<string | null>(null)
  balance,       \* Propose: useState<BN | undefined>()
  hashState,     \* Propose: { hash, isHashValid }
  publicProps,   \* Propose: useCall(api.query.democracy.publicProps)
  preimage,      \* Propose: usePreimage(hash)
  prOut          \* Propose: the params the transaction was started with

exVars   == <<exIn, exOut>>
callVars == <<props, extracted, pc, view, onErrorCalls>>
paVars   == <<paProps, paView>>
qrVars   == <<qrEnv, nameState, addressState, passwordState, qrOut>>
prVars   == <<prEnv, accountId, balance, hashState, publicProps, preimage, prOut>>
modalVars == <<qrVars, prVars>>
vars     == <<exVars, callVars, paVars, modalVars>>

(***************************************************************************)
(* JavaScript values                                                       *)
(***************************************************************************)
Null      == [t |-> "null"]
Undefined == [t |-> "undefined"]
Str(s)    == [t |-> "string", s |-> s]
Bool(b)   == [t |-> "boolean", b |-> b]
Num(n)    == [t |-> "number", n |-> n]
BN(n)     == [t |-> "BN", n |-> n]

\* JavaScript truthiness, as used by `&&`, `||`, `!!` and `? :`.
Truthy(v) ==
  CASE v.t = "null"      -> FALSE
    [] v.t = "undefined" -> FALSE
    [] v.t = "string"    -> v.s # ""
    [] v.t = "boolean"   -> v.b
    [] v.t = "number"    -> v.n # 0
    [] OTHER             -> TRUE

(***************************************************************************)
(* Codec objects handed in by @polkadot/types                              *)
(***************************************************************************)
Text(s)       == [t |-> "Text", s |-> s]
Bytes(b)      == [t |-> "Bytes", bytes |-> b]
Codec(v)      == [t |-> "Codec", v |-> v]
EnumOf(type)  == [t |-> "Enum", type |-> type]
PlainObject   == [t |-> "Object"]
FnMeta(args)  == [t |-> "FunctionMetadata", args |-> args]

\* Text.toString()
toString(x) == x.s

HexDigit == <<"0", "1", "2", "3", "4", "5", "6", "7",
              "8", "9", "a", "b", "c", "d", "e", "f">>

HexByte(b) == HexDigit[(b \div 16) + 1] \o HexDigit[(b % 16) + 1]

RECURSIVE HexOf(_)
HexOf(bytes) ==
  IF bytes = <<>> THEN "" ELSE HexByte(Head(bytes)) \o HexOf(Tail(bytes))

\* Codec.toHex(): the 0x-prefixed lowercase hex of the encoded bytes.
toHex(x) == "0x" \o HexOf(x.bytes)

\* getTypeDef(type): the TypeDef of a type string; a Compact<...> wrapper
\* carries the TypeDef of the wrapped type in sub.
RECURSIVE getTypeDef(_)
getTypeDef(type) ==
  IF Len(type) > 9 /\ SubSeq(type, 1, 8) = "Compact<"
                   /\ SubSeq(type, Len(type), Len(type)) = ">"
  THEN [info |-> "Compact", type |-> type,
        sub |-> <<getTypeDef(SubSeq(type, 9, Len(type) - 1))>>]
  ELSE [info |-> "Plain", type |-> type, sub |-> <<>>]

(***************************************************************************)
(* ./constants: the balance-call registry                                  *)
(***************************************************************************)
balanceCalls == {"balances.transfer", "balances.transferKeepAlive"}

balanceCallsOverrides ==
  [t |-> "ComponentMap", keys |-> {"Compact<u128>", "u128"}]

(***************************************************************************)
(* Bounds and input domains                                                *)
(***************************************************************************)
MaxArgs == 2

RECURSIVE SeqsUpTo(_, _)
SeqsUpTo(S, n) ==
  IF n = 0 THEN {<<>>}
  ELSE LET shorter == SeqsUpTo(S, n - 1)
       IN  shorter \cup {Append(s, x) : s \in {q \in shorter : Len(q) = n - 1}, x \in S}

ArgDefs == {[name |-> Text("dest"),  type |-> Text("AccountId")],
            [name |-> Text("value"), type |-> Text("Compact<u128>")]}

ArgValues == {Codec("5Grw"), Codec("500")}

Hashes == {Bytes(<<0, 171>>), Bytes(<<255, 16>>)}

Signatures == {Undefined, Bytes(<<1, 239>>)}

RawSignatures == {Undefined, PlainObject, EnumOf("Sr25519"), EnumOf("Ed25519")}

Metas == {Undefined} \cup {FnMeta(a) : a \in SeqsUpTo(ArgDefs, MaxArgs)}

\* Every object the IExtrinsic | IMethod parameter can be bound to at run time,
\* and undefined (an absent value).
Values ==
  {Undefined} \cup
  [t : {"Value"}, meta : Metas, args : SeqsUpTo(ArgValues, MaxArgs),
   hash : Hashes, signature : Signatures,
   isSigned : {Undefined, Bool(FALSE), Bool(TRUE)}, raw : RawSignatures]

Flags == {Undefined, Bool(FALSE), Bool(TRUE)}

CallNames == {Undefined, Str(""), Str("balances.transfer"), Str("system.remark")}

(***************************************************************************)
(* extractState (part_001, lines 54-92)                                    *)
(***************************************************************************)
TypeError == [t |-> "TypeError"]

isExtrinsic(value) == Truthy(value.signature)

getRawSignature(value) == value.raw

\* Mutant of overridesOf: the registry lookup is dropped, any name qualifies.
overridesOf_anyName(callName) ==
  IF Truthy(callName) THEN balanceCallsOverrides ELSE Undefined

overridesOf(callName) ==
  IF Truthy(callName) /\ callName.s \in balanceCalls
  THEN balanceCallsOverrides
  ELSE Undefined

\* Mutant of paramsOf: declared arguments are zipped with the actual values,
\* so params stops at the shorter of the two.
paramsOf_zipped(value) ==
  LET n == IF Len(value.args) < Len(value.meta.args)
           THEN Len(value.args) ELSE Len(value.meta.args)
  IN  [i \in 1..n |->
         [name |-> toString(value.meta.args[i].name),
          type |-> getTypeDef(toString(value.meta.args[i].type))]]

paramsOf(value) ==
  [i \in 1..Len(value.meta.args) |->
     [name |-> toString(value.meta.args[i].name),
      type |-> getTypeDef(toString(value.meta.args[i].type))]]

valuesOf(value) ==
  [i \in 1..Len(value.args) |-> [isValid |-> TRUE, value |-> value.args[i]]]

\* Mutant of hashOf: an omitted withHash counts as requested.
hashOf_defaultOn(value, withHash) ==
  IF withHash = Bool(FALSE) THEN Null ELSE Str(toHex(value.hash))

hashOf(value, withHash) ==
  IF Truthy(withHash) THEN Str(toHex(value.hash)) ELSE Null

\* Mutant of signatureGuard: isSigned is not consulted.
signatureGuard_noIsSigned(value, withSignature) ==
  Truthy(withSignature) /\ isExtrinsic(value)

signatureGuard(value, withSignature) ==
  Truthy(withSignature) /\ isExtrinsic(value) /\ Truthy(value.isSigned)

signatureOf(value, withSignature) ==
  IF signatureGuard(value, withSignature)
  THEN Str(toHex(value.signature))
  ELSE Null

\* Mutant of signatureTypeOf: the wrapper is tested for presence instead of
\* `instanceof Enum`, so a non-Enum wrapper yields its (undefined) type.
signatureTypeOf_truthy(value, withSignature) ==
  IF signatureGuard(value, withSignature)
  THEN LET raw == getRawSignature(value)
       IN  IF Truthy(raw)
           THEN (IF raw.t = "Enum" THEN Str(raw.type) ELSE Undefined)
           ELSE Null
  ELSE Null

signatureTypeOf(value, withSignature) ==
  IF signatureGuard(value, withSignature)
  THEN LET raw == getRawSignature(value)
       IN  IF raw.t = "Enum" THEN Str(raw.type) ELSE Null
  ELSE Null

\* Reading value.meta.args of an undefined value, or of a value whose meta is
\* undefined, throws a TypeError; nothing in extractState catches it.
extractState(value, withHash, withSignature, callName) ==
  IF value = Undefined THEN TypeError
  ELSE IF value.meta = Undefined THEN TypeError
  ELSE [t |-> "Extracted",
        hash |-> hashOf(value, withHash),
        overrides |-> overridesOf(callName),
        params |-> paramsOf(value),
        signature |-> signatureOf(value, withSignature),
        signatureType |-> signatureTypeOf(value, withSignature),
        values |-> valuesOf(value)]

(***************************************************************************)
(* SpecExtract: extractState applied to every input of the domain          *)
(***************************************************************************)
NotCalled == [t |-> "NotCalled"]

ExInputs == [value : Values, withHash : Flags, withSignature : Flags,
             callName : CallNames]

ExInit ==
  /\ exIn \in ExInputs
  /\ exOut = NotCalled

Extract ==
  /\ exOut = NotCalled
  /\ exOut' = extractState(exIn.value, exIn.withHash, exIn.withSignature,
                           exIn.callName)
  /\ UNCHANGED <<exIn, callVars, paVars, modalVars>>

IdleCall == props = Undefined /\ extracted = Undefined /\ pc = "off"
            /\ view = Undefined /\ onErrorCalls = 0

IdlePa == paProps = Undefined /\ paView = Undefined

IdleQr == /\ qrEnv = Undefined /\ nameState = Undefined
          /\ addressState = Undefined /\ passwordState = Undefined
          /\ qrOut = Undefined

IdlePr == /\ prEnv = Undefined /\ accountId = Undefined /\ balance = Undefined
          /\ hashState = Undefined /\ publicProps = Undefined
          /\ preimage = Undefined /\ prOut = Undefined

InitExtract == ExInit /\ IdleCall /\ IdlePa /\ IdleQr /\ IdlePr

NextExtract == Extract

SpecExtract == InitExtract /\ [][NextExtract]_vars

(***************************************************************************)
(* The Call component (part_001, lines 94-149)                             *)
(***************************************************************************)
Val(meta, args, hash, signature, isSigned, raw) ==
  [t |-> "Value", meta |-> meta, args |-> args, hash |-> hash,
   signature |-> signature, isSigned |-> isSigned, raw |-> raw]

DestArg  == [name |-> Text("dest"),  type |-> Text("AccountId")]

ValueArg == [name |-> Text("value"), type |-> Text("Compact<u128>")]

\* The values the component is mounted with: absent, a value whose meta is
\* unresolved, a bare method, a signed extrinsic with an Enum wrapper and an
\* unsigned extrinsic.
CallValues ==
  { Undefined,
    Val(Undefined, <<>>, Bytes(<<0, 171>>), Undefined, Undefined, Undefined),
    Val(FnMeta(<<DestArg, ValueArg>>), <<Codec("5Grw"), Codec("500")>>,
        Bytes(<<0, 171>>), Undefined, Undefined, Undefined),
    Val(FnMeta(<<DestArg, ValueArg>>), <<Codec("5Grw"), Codec("500")>>,
        Bytes(<<255, 16>>), Bytes(<<1, 239>>), Bool(TRUE), EnumOf("Sr25519")),
    Val(FnMeta(<<>>), <<>>,
        Bytes(<<0, 171>>), Bytes(<<>>), Bool(FALSE), Undefined) }

CallFlags == {Undefined, Bool(TRUE)}

Mortalities == {Undefined, Str("mortal, valid from #5 to #69")}

Tips == {Undefined, BN(0), BN(5)}

CallProps ==
  [callName : {Undefined, Str("balances.transfer")}, value : CallValues,
   withHash : CallFlags, withSignature : CallFlags,
   labelHash : {Str("preimage")}, labelSignature : {Undefined},
   mortality : Mortalities, tip : Tips]

\* useState<Extracted>({ hash: null, params: [], signature: null,
\* signatureType: null, values: [] }); overrides is left out, so it reads as
\* undefined.
InitialExtracted ==
  [t |-> "Extracted", hash |-> Null, overrides |-> Undefined, params |-> <<>>,
   signature |-> Null, signatureType |-> Null, values |-> <<>>]

\* useTranslation().t: the English text is the key itself.
t(key) == key

\* t('signature {{type}}', { replace: { type } })
tSignature(type) == "signature " \o type

\* a || b
Or(a, b) == IF Truthy(a) THEN a ELSE b

Static(className, label, value, withCopy) ==
  [t |-> "Static", className |-> className, label |-> label,
   value |-> value, withCopy |-> withCopy]

NoRow == [t |-> "nothing"]

hashRow(p, ex) ==
  IF Truthy(ex.hash)
  THEN Static("hash", Or(p.labelHash, Str(t("extrinsic hash"))), ex.hash, TRUE)
  ELSE NoRow

signatureRow(p, ex) ==
  IF Truthy(ex.signature)
  THEN Static("hash",
              Or(p.labelSignature,
                 Str(tSignature(IF Truthy(ex.signatureType)
                                THEN "(" \o ex.signatureType.s \o ")"
                                ELSE ""))),
              ex.signature, TRUE)
  ELSE NoRow

mortalityRow(p) ==
  IF Truthy(p.mortality)
  THEN Static("mortality", Str(t("lifetime")), p.mortality, FALSE)
  ELSE NoRow

\* Mutant of tipRow: the row is shown for any tip that is given, zero included.
tipRow_anyTip(p) ==
  IF p.tip # Undefined
  THEN Static("tip", Str(t("tip")), [t |-> "FormatBalance", value |-> p.tip], FALSE)
  ELSE NoRow

\* tip?.gtn(0) && <Static ... />
tipRow(p) ==
  IF p.tip # Undefined /\ p.tip.n > 0
  THEN Static("tip", Str(t("tip")), [t |-> "FormatBalance", value |-> p.tip], FALSE)
  ELSE NoRow

Registry == [t |-> "Registry"]

\* One render of Call with props p and Extracted state ex. Reading
\* value.registry of an absent value throws.
Render(p, ex) ==
  IF p.value = Undefined THEN TypeError
  ELSE [t |-> "View",
        params |-> [isDisabled |-> TRUE, overrides |-> ex.overrides,
                    params |-> ex.params, registry |-> Registry,
                    values |-> ex.values],
        hashRow |-> hashRow(p, ex),
        signatureRow |-> signatureRow(p, ex),
        mortalityRow |-> mortalityRow(p),
        tipRow |-> tipRow(p)]

\* The dependency list of the effect: [callName, value, withHash, withSignature]
Deps(p) == <<p.callName, p.value, p.withHash, p.withSignature>>

Extraction(p) == extractState(p.value, p.withHash, p.withSignature, p.callName)

\* Mount: the first render, with the initial state; the effect is pending.
CallInit ==
  /\ props \in CallProps
  /\ extracted = InitialExtracted
  /\ view = Render(props, InitialExtracted)
  /\ pc = IF view = TypeError THEN "crashed" ELSE "effect"
  /\ onErrorCalls = 0

\* Mutant of RunEffect: the result is merged into the held state, a null hash
\* or signature keeping the one held before.
RunEffect_merge ==
  /\ pc = "effect"
  /\ LET r == Extraction(props)
     IN  IF r = TypeError
         THEN /\ pc' = "crashed"
              /\ view' = TypeError
              /\ UNCHANGED extracted
         ELSE /\ extracted' = [r EXCEPT !.hash = Or(r.hash, extracted.hash),
                                        !.signature = Or(r.signature, extracted.signature)]
              /\ pc' = "rerender"
              /\ UNCHANGED view
  /\ UNCHANGED <<props, onErrorCalls, exVars, paVars, modalVars>>

\* The effect of lines 98-100: setExtracted(extractState(...)). An exception
\* thrown by extractState leaves the effect uncaught: React drops the
\* component; onError is not called.
RunEffect ==
  /\ pc = "effect"
  /\ LET r == Extraction(props)
     IN  IF r = TypeError
         THEN /\ pc' = "crashed"
              /\ view' = TypeError
              /\ UNCHANGED extracted
         ELSE /\ extracted' = r
              /\ pc' = "rerender"
              /\ UNCHANGED view
  /\ UNCHANGED <<props, onErrorCalls, exVars, paVars, modalVars>>

\* The render that setExtracted schedules: same props, new state; the
\* dependencies are unchanged, so no effect follows.
Rerender ==
  /\ pc = "rerender"
  /\ view' = Render(props, extracted)
  /\ pc' = "idle"
  /\ UNCHANGED <<props, extracted, onErrorCalls, exVars, paVars, modalVars>>

\* The parent renders Call with new props: the render uses the state held at
\* that moment; the effect follows if a dependency changed.
PropsChange ==
  /\ pc \in {"idle", "rerender"}
  /\ \E p \in CallProps :
       /\ p # props
       /\ props' = p
       /\ view' = Render(p, extracted)
       /\ pc' = IF Render(p, extracted) = TypeError THEN "crashed"
                ELSE IF Deps(p) # Deps(props) THEN "effect"
                ELSE "idle"
  /\ UNCHANGED <<extracted, onErrorCalls, exVars, paVars, modalVars>>

IdleEx == exIn = Undefined /\ exOut = Undefined

Init == CallInit /\ IdleEx /\ IdlePa /\ IdleQr /\ IdlePr

Next == RunEffect \/ Rerender \/ PropsChange

Spec == Init /\ [][Next]_vars

(***************************************************************************)
(* The ProposedAction component (ProposedAction.tsx, lines 22-47)          *)
(***************************************************************************)
MaxSmallId == 3

IdNumbers == (0..MaxSmallId) \cup {42, 999, 1000, 1234, 100000, 1234567}

IdStrings == {"", "0", "abc", "0x00ab"}

\* idNumber?: BN | number | string
IdValues ==
  {Undefined} \cup {Str(x) : x \in IdStrings}
              \cup {Num(n) : n \in IdNumbers} \cup {BN(n) : n \in IdNumbers}

\* proposal?: Call | null
Proposals ==
  { Undefined, Null,
    Val(FnMeta(<<DestArg, ValueArg>>), <<Codec("5Grw"), Codec("500")>>,
        Bytes(<<0, 171>>), Undefined, Undefined, Undefined),
    Val(FnMeta(<<>>), <<>>, Bytes(<<255, 16>>), Undefined, Undefined, Undefined) }

PaProps == [className : {""}, idNumber : IdValues, proposal : Proposals]

Digit == <<"0", "1", "2", "3", "4", "5", "6", "7", "8", "9">>

\* BN.toString(): the decimal digits of a natural number.
RECURSIVE ToDecimal(_)
ToDecimal(n) ==
  IF n < 10 THEN Digit[n + 1] ELSE ToDecimal(n \div 10) \o Digit[(n % 10) + 1]

\* The three digits of a group below the leading one.
Group3(n) ==
  Digit[(n \div 100) + 1] \o Digit[((n \div 10) % 10) + 1] \o Digit[(n % 10) + 1]

\* formatDecimal: the digits in groups of three from the right, joined by ','.
RECURSIVE formatDecimal(_)
formatDecimal(n) ==
  IF n < 1000 THEN ToDecimal(n)
  ELSE formatDecimal(n \div 1000) \o "," \o Group3(n % 1000)

\* formatNumber(value) of @polkadot/util, for a number or a BN.
formatNumber(value) == Str(formatDecimal(value.n))

isString(value) == value.t = "string"

isUndefined(value) == value = Undefined

\* Mutant of stringIdOf: a falsy identifier (the number 0 too) is passed
\* through unformatted.
stringIdOf_falsyThrough(idNumber) ==
  IF isString(idNumber) \/ isUndefined(idNumber) \/ ~Truthy(idNumber)
  THEN idNumber
  ELSE formatNumber(idNumber)

\* const stringId = isString(idNumber) || isUndefined(idNumber)
\*   ? idNumber : formatNumber(idNumber)
stringIdOf(idNumber) ==
  IF isString(idNumber) \/ isUndefined(idNumber)
  THEN idNumber
  ELSE formatNumber(idNumber)

NoDetailsMessage == t("No execution details available for this proposal")

\* One render of ProposedAction.
ProposedAction(p) ==
  LET stringId == stringIdOf(p.idNumber)
  IN  IF ~Truthy(p.proposal)
      THEN [t |-> "div", className |-> "ui--ProposedAction " \o p.className,
            text |-> (IF Truthy(stringId) THEN "#" \o stringId.s \o ": " ELSE "")
                       \o NoDetailsMessage]
      ELSE [t |-> "CallExpander", className |-> "ui--ProposedAction " \o p.className,
            isHeader |-> TRUE, labelHash |-> Str(t("preimage")),
            stringId |-> stringId, value |-> p.proposal, withHash |-> TRUE]

\* Mount: the first render.
PaInit ==
  /\ paProps \in PaProps
  /\ paView = ProposedAction(paProps)

\* The parent renders ProposedAction with new props.
PaRender ==
  /\ \E p \in PaProps :
       /\ p # paProps
       /\ paProps' = p
       /\ paView' = ProposedAction(p)
  /\ UNCHANGED <<exVars, callVars, modalVars>>

InitProposed == PaInit /\ IdleEx /\ IdleCall /\ IdleQr /\ IdlePr

NextProposed == PaRender

SpecProposed == InitProposed /\ [][NextProposed]_vars

(***************************************************************************)
(* Claims about extractState, checked under SpecExtract                    *)
(***************************************************************************)
Returned == exOut.t = "Extracted"

Declared == exIn.value.meta.args

Actual == exIn.value.args

\* C1 (as stated): whenever extractState returns, params and values have the
\* same length, that length is the number of declared arguments, and this
\* holds also when value.args and value.meta.args differ in length.
C1_LengthsAlwaysEqual ==
  Returned =>
    /\ Len(exOut.params) = Len(exOut.values)
    /\ Len(exOut.params) = Len(Declared)

\* C1 (amended): whenever extractState returns, params has one entry per
\* declared argument (its name and the TypeDef of its type, in declaration
\* order), values has one valid entry per actual argument (in order), and the
\* two have the same length whenever value.args has as many entries as
\* value.meta.args.
C1_ParamsValuesAligned ==
  Returned =>
    /\ Len(exOut.params) = Len(Declared)
    /\ Len(exOut.values) = Len(Actual)
    /\ \A i \in 1..Len(Declared) :
         /\ exOut.params[i].name = Declared[i].name.s
         /\ exOut.params[i].type.type = Declared[i].type.s
         /\ (Declared[i].type.s = "Compact<u128>" =>
               exOut.params[i].type =
                 [info |-> "Compact", type |-> "Compact<u128>",
                  sub |-> <<[info |-> "Plain", type |-> "u128", sub |-> <<>>]>>])
    /\ \A i \in 1..Len(Actual) :
         exOut.values[i] = [isValid |-> TRUE, value |-> Actual[i]]
    /\ (Len(Actual) = Len(Declared) => Len(exOut.params) = Len(exOut.values))

\* C1 witness: a two-argument method (dest, value) with two actual values has
\* been extracted into two params and two values.
C1_Witness ==
  /\ Returned
  /\ Len(Declared) = 2 /\ Len(Actual) = 2
  /\ Declared[1].name.s = "dest" /\ Declared[2].name.s = "value"
  /\ Len(exOut.params) = 2 /\ Len(exOut.values) = 2

SignedRequested ==
  /\ exIn.withSignature = Bool(TRUE)
  /\ exIn.value.signature # Undefined
  /\ exIn.value.isSigned = Bool(TRUE)

\* C3: in the result, signature is non-null exactly when withSignature is true,
\* the input carries a signature field and it reports isSigned; signatureType
\* is non-null only then; for an input without a signature field (a bare
\* method) both are null whatever withSignature is.
C3_SignatureOnlyWhenSigned ==
  Returned =>
    /\ (exOut.signature # Null <=> SignedRequested)
    /\ (exOut.signatureType # Null => SignedRequested)
    /\ (exIn.value.signature = Undefined =>
          exOut.signature = Null /\ exOut.signatureType = Null)

\* C3 witness: signature display was requested for a bare method carrying no
\* signature field, and the result holds neither signature nor signatureType.
C3_Witness ==
  /\ Returned
  /\ exIn.withSignature = Bool(TRUE)
  /\ exIn.value.signature = Undefined
  /\ exIn.value.isSigned = Bool(TRUE)
  /\ exOut.signature = Null

\* C4: for a signed extrinsic with withSignature true, signature is the hex
\* encoding of the extrinsic's signature; signatureType is the tag of the raw
\* signature wrapper when that wrapper is an Enum, and null when the wrapper is
\* absent or not an Enum.
C4_SignatureHexAndType ==
  (Returned /\ SignedRequested) =>
    /\ exOut.signature = Str(toHex(exIn.value.signature))
    /\ (exIn.value.signature.bytes = <<1, 239>> =>
          exOut.signature = Str("0x01ef"))
    /\ (exIn.value.raw.t = "Enum" =>
          exOut.signatureType = Str(exIn.value.raw.type))
    /\ (exIn.value.raw.t # "Enum" => exOut.signatureType = Null)

\* C4 witness: a signed extrinsic whose raw wrapper is the Sr25519 variant has
\* been extracted with its signature in hex and the tag as signatureType.
C4_Witness ==
  /\ Returned /\ SignedRequested
  /\ exIn.value.raw = EnumOf("Sr25519")
  /\ exOut.signatureType = Str("Sr25519")
  /\ exOut.signature = Str("0x01ef")

InRegistry ==
  /\ exIn.callName.t = "string"
  /\ exIn.callName.s \in balanceCalls

\* C5 (as stated): overrides is the registry's override map when callName is
\* in the balance-call registry and is null otherwise.
C5_OverridesElseNull ==
  Returned =>
    exOut.overrides = IF InRegistry THEN balanceCallsOverrides ELSE Null

\* C5 (amended): overrides is the registry's override map when callName is
\* in the balance-call registry and is undefined otherwise (callName absent,
\* empty or not in the registry).
C5_OverridesElseUndefined ==
  Returned =>
    exOut.overrides = IF InRegistry THEN balanceCallsOverrides ELSE Undefined

\* C5 witness: a call named in the registry got the override map.
C5_Witness ==
  /\ Returned
  /\ exIn.callName = Str("balances.transfer")
  /\ exOut.overrides = balanceCallsOverrides

\* C6: in the result, hash is null when withHash is false or omitted and is
\* the hex encoding of the input's hash when withHash is true.
C6_HashIffRequested ==
  Returned =>
    /\ (exIn.withHash # Bool(TRUE) => exOut.hash = Null)
    /\ (exIn.withHash = Bool(TRUE) =>
          /\ exOut.hash = Str(toHex(exIn.value.hash))
          /\ exOut.hash # Null
          /\ (exIn.value.hash.bytes = <<0, 171>> => exOut.hash = Str("0x00ab")))

\* C6 witness: hash display was requested and the result holds the hex hash.
C6_Witness ==
  /\ Returned
  /\ exIn.withHash = Bool(TRUE)
  /\ exIn.value.hash.bytes = <<0, 171>>
  /\ exOut.hash = Str("0x00ab")

(***************************************************************************)
(* Claims about the Call component, checked under Spec                     *)
(***************************************************************************)
MetaUnresolved == props.value # Undefined /\ props.value.meta = Undefined

\* C2 (as stated): extraction never raises: for a value whose declared-argument
\* metadata cannot be resolved, once the effect has run the component is still
\* alive, its Extracted holds an empty params list and onError was invoked.
C2_ExtractionNeverRaises ==
  (MetaUnresolved /\ pc # "effect") =>
    /\ pc # "crashed"
    /\ extracted.params = <<>>
    /\ onErrorCalls > 0

\* A render has been committed with the state now held (no setExtracted is
\* waiting for its re-render).
Displayed == pc \in {"effect", "idle"}

\* C7 (as stated): in every render of Call, starting with the first, the
\* Extracted used for display is extractState of that render's inputs.
C7_EveryRenderCurrent ==
  (Displayed /\ Extraction(props) # TypeError) =>
    /\ extracted = Extraction(props)
    /\ view = Render(props, Extraction(props))

\* C7 (amended): the Extracted state is rebuilt in full by the effect that
\* follows a render whose inputs changed: once that effect has run, the state
\* is extractState of the current inputs, and the render it schedules displays
\* exactly that; the render that precedes the effect (the first render, and
\* the first render after an input change) displays the state held before,
\* which at mount is the empty initial state.
C7_RebuiltByEffect ==
  /\ pc \in {"rerender", "idle"} => extracted = Extraction(props)
  /\ pc = "idle" => view = Render(props, Extraction(props))
  /\ pc = "effect" => view = Render(props, extracted)

\* C7 witness: the effect has run and the settled render of a signed extrinsic
\* shows the hash and the signature of the current inputs.
C7_Witness ==
  /\ pc = "idle"
  /\ props.withHash = Bool(TRUE) /\ props.withSignature = Bool(TRUE)
  /\ props.value.isSigned = Bool(TRUE)
  /\ extracted.hash = Str("0xff10")
  /\ extracted.signature = Str("0x01ef")
  /\ view.hashRow.value = Str("0xff10")
  /\ view.signatureRow.label = Str("signature (Sr25519)")

\* C9: each optional static row is rendered only when its value is present:
\* the hash row only with a non-null extracted hash (which it shows), the
\* signature row only with a non-null extracted signature, the lifetime row
\* only when mortality is given, the tip row only for a given tip above zero.
C9_RowsOnlyWhenPresent ==
  view.t = "View" =>
    /\ (Displayed /\ view.hashRow # NoRow) =>
          extracted.hash # Null /\ view.hashRow.value = extracted.hash
    /\ (Displayed /\ view.signatureRow # NoRow) =>
          extracted.signature # Null /\ view.signatureRow.value = extracted.signature
    /\ view.mortalityRow # NoRow =>
          props.mortality # Undefined /\ view.mortalityRow.value = props.mortality
    /\ view.tipRow # NoRow =>
          props.tip # Undefined /\ props.tip.n > 0

\* C9 witness: a render with a zero tip and no mortality shows the hash row
\* and neither the tip row nor the lifetime row.
C9_Witness ==
  /\ pc = "idle"
  /\ props.tip = BN(0) /\ props.mortality = Undefined
  /\ view.hashRow # NoRow
  /\ view.tipRow = NoRow /\ view.mortalityRow = NoRow

(***************************************************************************)
(* Claims about ProposedAction, checked under SpecProposed                 *)
(***************************************************************************)
NoProposal == paProps.proposal \in {Undefined, Null}

\* The identifier as the claim has it displayed: a number or BN through
\* formatNumber, a string unchanged.
IdText ==
  IF paProps.idNumber.t = "string" THEN paProps.idNumber.s
  ELSE formatNumber(paProps.idNumber).s

\* C8 (as stated): with no proposal the text is the no-details message,
\* preceded by "#<id>: " if and only if an identifier is present.
C8_PrefixIffPresent ==
  NoProposal =>
    paView.text = (IF paProps.idNumber # Undefined
                   THEN "#" \o IdText \o ": " ELSE "") \o NoDetailsMessage

\* C8 (amended): with no proposal the text is the no-details message, preceded
\* by "#<id>: " if and only if an identifier is present and is not the empty
\* string; a number or BN (0 included) is shown through formatNumber, a
\* non-empty string unchanged.
C8_PrefixIffNonEmpty ==
  NoProposal =>
    /\ paView.t = "div"
    /\ paView.text = (IF paProps.idNumber \notin {Undefined, Str("")}
                      THEN "#" \o IdText \o ": " ELSE "") \o NoDetailsMessage
    /\ (paProps.idNumber \in {Num(42), BN(42)} =>
          paView.text = "#42: No execution details available for this proposal")
    /\ (paProps.idNumber \in {Num(0), BN(0)} =>
          paView.text = "#0: No execution details available for this proposal")
    /\ (paProps.idNumber \in {Num(1234567), BN(1234567)} =>
          paView.text = "#1,234,567: No execution details available for this proposal")
    /\ (paProps.idNumber = Str("0x00ab") =>
          paView.text = "#0x00ab: No execution details available for this proposal")
    /\ (paProps.idNumber = Undefined =>
          paView.text = "No execution details available for this proposal")

\* C8 witness: identifier 1000 and no proposal are rendered as "#1,000: "
\* followed by the no-details message.
C8_Witness ==
  /\ NoProposal
  /\ paProps.idNumber = BN(1000)
  /\ paView.text = "#1,000: No execution details available for this proposal"

(***************************************************************************)
(* The Qr account-import modal (page-accounts modals/Qr.tsx)               *)
(***************************************************************************)
\* String.prototype.trim(), for strings whose only whitespace is the blank.
RECURSIVE trim(_)
trim(str) ==
  IF str = "" THEN ""
  ELSE IF SubSeq(str, 1, 1) = " " THEN trim(SubSeq(str, 2, Len(str)))
  ELSE IF SubSeq(str, Len(str), Len(str)) = " "
       THEN trim(SubSeq(str, 1, Len(str) - 1))
  ELSE str

\* keyring.createFromUri(uri, {}, 'sr25519'): the pair of a hex seed; any
\* other uri is rejected with an exception.
createFromUri(uri) ==
  IF Len(uri) > 2 /\ SubSeq(uri, 1, 2) = "0x"
  THEN [t |-> "KeyringPair", address |-> "5" \o SubSeq(uri, 3, Len(uri))]
  ELSE [t |-> "Error"]

ScannedOf(content, isAddr, genesisHash, name) ==
  [t |-> "Scanned", content |-> content, isAddress |-> isAddr,
   genesisHash |-> genesisHash, name |-> name]

\* What QrScanAddress hands to onScan: an address or a secret, with the
\* genesisHash and the optional name the QR carries.
Scans ==
  {ScannedOf(c[1], c[2], g, n) :
     c \in {<<"5Alice", TRUE>>, <<"0xseed", FALSE>>, <<"not a uri", FALSE>>},
     g \in {"", "0xabcd", "0x1234"},
     n \in {Undefined, Str("Alice")}}

ScanErrors == {"", "Unable to decode"}

TypedNames == {"", " ", " Bob "}

\* What PasswordInput hands to onChange: the password and its validity.
TypedPasswords == {<<"", FALSE>>, <<"pw", FALSE>>, <<"pw", TRUE>>}

QrEnvs == [isIpfs : BOOLEAN, isEthereum : BOOLEAN,
           genesisHash : {Bytes(<<171, 205>>)}]

NoOut == [keyring |-> Null, lastValue |-> Null, status |-> Null,
          closed |-> FALSE, uncaught |-> FALSE]

\* Mount: the three useState initial values (lines 41-43).
QrInit ==
  /\ qrEnv \in QrEnvs
  /\ nameState = [isNameValid |-> FALSE, name |-> ""]
  /\ addressState = [address |-> "", isAddress |-> FALSE, scanned |-> Null,
                     warning |-> Undefined]
  /\ passwordState = [isPasswordValid |-> FALSE, password |-> ""]
  /\ qrOut = NoOut

\* const isValid = !!address && isNameValid && (isAddress || isPasswordValid)
isValid ==
  /\ addressState.address # ""
  /\ nameState.isNameValid
  /\ (addressState.isAddress \/ passwordState.isPasswordValid)

\* scannedGenesisWarn (lines 47-50)
scannedGenesisWarn ==
  /\ addressState.scanned # Null
  /\ addressState.scanned.genesisHash # ""
  /\ toHex(qrEnv.genesisHash) # addressState.scanned.genesisHash

\* isDisabled of the Save button (line 177)
SaveDisabled ==
  \/ addressState.scanned = Null
  \/ ~isValid
  \/ (~addressState.isAddress /\ qrEnv.isIpfs)

\* The scanner is rendered while nothing is scanned; the name input once
\* something is; the password input for a scanned secret (lines 127-172).
ScannerShown == ~qrOut.closed /\ addressState.scanned = Null

NameInputShown == ~qrOut.closed /\ addressState.scanned # Null

PasswordInputShown == NameInputShown /\ ~addressState.isAddress

\* _onNameChange (lines 52-55)
onNameChange(name) == [isNameValid |-> trim(name) # "", name |-> name]

NameChange ==
  /\ NameInputShown
  /\ \E name \in TypedNames \cup {"Alice"} : nameState' = onNameChange(name)
  /\ UNCHANGED <<qrEnv, addressState, passwordState, qrOut>>
  /\ UNCHANGED <<exVars, callVars, paVars, prVars>>

\* _onPasswordChange (lines 57-60)
PasswordChange ==
  /\ PasswordInputShown
  /\ \E pw \in TypedPasswords :
       passwordState' = [isPasswordValid |-> pw[2], password |-> pw[1]]
  /\ UNCHANGED <<qrEnv, nameState, addressState, qrOut>>
  /\ UNCHANGED <<exVars, callVars, paVars, prVars>>

\* Mutant of Scan: the new address state is merged into the old one, so a
\* warning held from an earlier scan error stays.
Scan_keepsWarning ==
  /\ ScannerShown
  /\ \E scanned \in Scans :
       LET pair == createFromUri(scanned.content)
       IN  IF ~scanned.isAddress /\ pair.t = "Error"
           THEN /\ qrOut' = [qrOut EXCEPT !.uncaught = TRUE]
                /\ UNCHANGED <<addressState, nameState>>
           ELSE /\ addressState' =
                     [addressState EXCEPT
                        !.address = IF scanned.isAddress THEN scanned.content
                                    ELSE pair.address,
                        !.isAddress = scanned.isAddress,
                        !.scanned = scanned]
                /\ nameState' = IF Truthy(scanned.name)
                                THEN onNameChange(scanned.name.s)
                                ELSE nameState
                /\ UNCHANGED qrOut
  /\ UNCHANGED <<qrEnv, passwordState>>
  /\ UNCHANGED <<exVars, callVars, paVars, prVars>>

\* _onScan (lines 62-77): the address state is replaced as a whole (no
\* warning key), then the scanned name, if any, goes through _onNameChange.
\* createFromUri throwing leaves the handler before any state is set.
Scan ==
  /\ ScannerShown
  /\ \E scanned \in Scans :
       LET pair == createFromUri(scanned.content)
       IN  IF ~scanned.isAddress /\ pair.t = "Error"
           THEN /\ qrOut' = [qrOut EXCEPT !.uncaught = TRUE]
                /\ UNCHANGED <<addressState, nameState>>
           ELSE /\ addressState' =
                     [address |-> IF scanned.isAddress THEN scanned.content
                                  ELSE pair.address,
                      isAddress |-> scanned.isAddress,
                      scanned |-> scanned,
                      warning |-> Undefined]
                /\ nameState' = IF Truthy(scanned.name)
                                THEN onNameChange(scanned.name.s)
                                ELSE nameState
                /\ UNCHANGED qrOut
  /\ UNCHANGED <<qrEnv, passwordState>>
  /\ UNCHANGED <<exVars, callVars, paVars, prVars>>

\* _onError (lines 79-89)
ScanError ==
  /\ ScannerShown
  /\ \E message \in ScanErrors :
       addressState' = [address |-> "", isAddress |-> FALSE, scanned |-> Null,
                        warning |-> Str(message)]
  /\ UNCHANGED <<qrEnv, nameState, passwordState, qrOut>>
  /\ UNCHANGED <<exVars, callVars, paVars, prVars>>

\* _onSave (lines 91-117): nothing without a scan or with invalid input;
\* otherwise the account is added to the keyring, made the last value,
\* reported, and the modal is closed.
onSave ==
  /\ IF addressState.scanned = Null \/ ~isValid
     THEN UNCHANGED qrOut
     ELSE LET scanned == addressState.scanned
              meta == [genesisHash |-> IF scanned.genesisHash # ""
                                       THEN scanned.genesisHash
                                       ELSE toHex(qrEnv.genesisHash),
                       name |-> trim(nameState.name)]
              call == IF scanned.isAddress
                      THEN IF qrEnv.isEthereum
                           THEN [fn |-> "addExternal", content |-> scanned.content,
                                 password |-> Undefined, meta |-> Undefined]
                           ELSE [fn |-> "addExternal", content |-> scanned.content,
                                 password |-> Undefined, meta |-> meta]
                      ELSE [fn |-> "addUri", content |-> scanned.content,
                            password |-> Str(passwordState.password), meta |-> meta]
              account == IF scanned.isAddress THEN scanned.content
                         ELSE createFromUri(scanned.content).address
          IN  qrOut' = [keyring |-> call,
                        lastValue |-> Str(account),
                        status |-> [account |-> account, action |-> "create",
                                    message |-> "created account",
                                    status |-> "success"],
                        closed |-> TRUE,
                        uncaught |-> qrOut.uncaught]
  /\ UNCHANGED <<qrEnv, nameState, addressState, passwordState>>
  /\ UNCHANGED <<exVars, callVars, paVars, prVars>>

\* onClick of the Save button (line 179); a disabled button does not click.
SaveClick == ~qrOut.closed /\ ~SaveDisabled /\ onSave

\* onEnter of the name input (line 145)
NameEnter == NameInputShown /\ onSave

\* onEnter of the password input (line 155)
PasswordEnter == PasswordInputShown /\ onSave

InitQr == QrInit /\ IdleEx /\ IdleCall /\ IdlePa /\ IdlePr

NextQr == \/ NameChange \/ PasswordChange \/ Scan \/ ScanError
          \/ SaveClick \/ NameEnter \/ PasswordEnter

SpecQr == InitQr /\ [][NextQr]_vars

(***************************************************************************)
(* Claims about the Qr modal, checked under SpecQr                         *)
(***************************************************************************)
AccountCreated == qrOut.keyring # Null

\* C11 (as stated): an account is created only in a state in which the Save
\* button is enabled: a scan is held, the address is non-empty, the name is
\* non-blank, the password is valid unless the scan is a plain address, and
\* the scan is not a secret while the app runs in IPFS mode. (Nothing changes
\* the modal's state after the save, so the state held with the created
\* account is the state of the save.)
C11_CreatedOnlyWhenSaveEnabled ==
  AccountCreated =>
    /\ addressState.scanned # Null
    /\ addressState.address # ""
    /\ trim(nameState.name) # ""
    /\ (addressState.scanned.isAddress \/ passwordState.isPasswordValid)
    /\ ~(~addressState.scanned.isAddress /\ qrEnv.isIpfs)
    /\ ~SaveDisabled

WarningHeld == addressState.warning # Undefined

\* C12: whenever a scan result is held, isAddress equals scanned.isAddress and
\* no warning is held; whenever a warning is held, the scan result is null,
\* the address is empty and isAddress is false, so that _onSave returns
\* without creating an account and none has been created.
C12_AddressStateConsistent ==
  /\ addressState.scanned # Null =>
       /\ addressState.isAddress = addressState.scanned.isAddress
       /\ ~WarningHeld
  /\ WarningHeld =>
       /\ addressState.scanned = Null
       /\ addressState.address = ""
       /\ ~addressState.isAddress
       /\ ~isValid
       /\ SaveDisabled
       /\ ~AccountCreated

\* C12 witness: a secret has been scanned: the derived address is held,
\* isAddress is false as in the scan, and no warning is held.
C12_Witness ==
  /\ addressState.scanned # Null
  /\ addressState.scanned.content = "0xseed"
  /\ addressState.address = "5seed"
  /\ ~addressState.isAddress
  /\ ~WarningHeld

(***************************************************************************)
(* The democracy Propose modal (page-democracy Overview/Propose.tsx)       *)
(***************************************************************************)
MaxBalance == 2

MaxProps == 1

HexChars == {"0", "1", "2", "3", "4", "5", "6", "7", "8", "9",
             "a", "b", "c", "d", "e", "f", "A", "B", "C", "D", "E", "F"}

\* Math.ceil(bitLength / 4)
CeilDiv4(n) == (n + 3) \div 4

\* isHex(value, bitLength) of @polkadot/util: a string that is '0x' or matches
\* /^0x[\da-fA-F]+$/, of exactly 2 + ceil(bitLength / 4) characters (of even
\* length when bitLength is -1).
isHex(value, bitLength) ==
  /\ value.t = "string"
  /\ Len(value.s) >= 2
  /\ SubSeq(value.s, 1, 2) = "0x"
  /\ \A i \in 3..Len(value.s) : SubSeq(value.s, i, i) \in HexChars
  /\ IF bitLength = -1 THEN Len(value.s) % 2 = 0
     ELSE Len(value.s) = 2 + CeilDiv4(bitLength)

\* What the hash Input hands to onChange.
HashInputs ==
  { Undefined, Str("0x1234"),
    Str("0xabababababababababababababababababababababababababababababababab"),
    Str("0xzzababababababababababababababababababababababababababababababab"),
    Str("ababababababababababababababababababababababababababababababababab"),
    Str("0xababababababababababababababababababababababababababababababababab") }

AccountIds == {Null, Str(""), Str("5Alice")}

Balances == {Undefined} \cup {BN(n) : n \in 0..MaxBalance}

ArrayOf(n) == [t |-> "Array", length |-> n]

PrEnvs ==
  [minimumDeposit : {BN(0), BN(1)},
   preimageNote : BOOLEAN,    \* isFunction(api.tx.preimage?.notePreimage)
   democracyNote : BOOLEAN,   \* isFunction(api.tx.democracy?.notePreimage)
   proposeArgs : {2, 3}]      \* api.tx.democracy.propose.meta.args.length

\* Mount: lines 30-34.
PrInit ==
  /\ prEnv \in PrEnvs
  /\ accountId = Null
  /\ balance = Undefined
  /\ hashState = [hash |-> Undefined, isHashValid |-> FALSE]
  /\ publicProps = Undefined
  /\ preimage = Undefined
  /\ prOut = Null

\* const hasMinLocked = balance?.gte(api.consts.democracy.minimumDeposit)
hasMinLocked ==
  IF balance = Undefined THEN Undefined
  ELSE Bool(balance.n >= prEnv.minimumDeposit.n)

\* isFunction(api.tx.preimage?.notePreimage) &&
\*   !isFunction(api.tx.democracy?.notePreimage)
preimageOnly == prEnv.preimageNote /\ ~prEnv.democracyNote

\* Mutant of SubmitDisabled: publicProps is not waited for.
SubmitDisabled_noPublicProps ==
  \/ ~Truthy(balance)
  \/ ~Truthy(hasMinLocked)
  \/ ~hashState.isHashValid
  \/ ~Truthy(accountId)
  \/ (preimageOnly /\ ~Truthy(preimage))

\* isDisabled of the TxButton (line 96)
SubmitDisabled ==
  \/ ~Truthy(balance)
  \/ ~Truthy(hasMinLocked)
  \/ ~hashState.isHashValid
  \/ ~Truthy(accountId)
  \/ ~Truthy(publicProps)
  \/ (preimageOnly /\ ~Truthy(preimage))

\* params of the TxButton (lines 99-105)
ProposeParams ==
  IF prEnv.proposeArgs = 3
  THEN <<hashState.hash, balance,
         IF publicProps = Undefined THEN Undefined ELSE Num(publicProps.length)>>
  ELSE IF preimageOnly
       THEN <<IF Truthy(preimage)
              THEN [t |-> "Lookup", hash |-> preimage.proposalHash,
                    len |-> preimage.proposalLength]
              ELSE preimage,
              balance>>
       ELSE <<hashState.hash, balance>>

PrOpen == prOut = Null

\* onChange of InputAddress: setAccountId
SetAccountId ==
  /\ PrOpen
  /\ \E a \in AccountIds : accountId' = a
  /\ UNCHANGED <<prEnv, balance, hashState, publicProps, preimage, prOut>>
  /\ UNCHANGED <<exVars, callVars, paVars, qrVars>>

\* onChange of InputBalance: setBalance
SetBalance ==
  /\ PrOpen
  /\ \E b \in Balances : balance' = b
  /\ UNCHANGED <<prEnv, accountId, hashState, publicProps, preimage, prOut>>
  /\ UNCHANGED <<exVars, callVars, paVars, qrVars>>

\* _onChangeHash (lines 36-40); usePreimage(hash) starts over for the new
\* hash, or still holds what it held.
ChangeHash ==
  /\ PrOpen
  /\ \E h \in HashInputs :
       hashState' = [hash |-> h, isHashValid |-> isHex(h, 256)]
  /\ preimage' \in {Undefined, preimage}
  /\ UNCHANGED <<prEnv, accountId, balance, publicProps, prOut>>
  /\ UNCHANGED <<exVars, callVars, paVars, qrVars>>

\* useCall(api.query.democracy.publicProps) delivers the list.
PublicPropsResult ==
  /\ PrOpen
  /\ \E n \in 0..MaxProps : publicProps' = ArrayOf(n)
  /\ UNCHANGED <<prEnv, accountId, balance, hashState, preimage, prOut>>
  /\ UNCHANGED <<exVars, callVars, paVars, qrVars>>

\* usePreimage(hash) delivers the preimage of the entered hash; its length
\* is known only once the chain has it.
PreimageResult ==
  /\ PrOpen
  /\ Truthy(hashState.hash)
  /\ \E len \in {Undefined, BN(1)} :
       preimage' = [t |-> "Preimage", proposalHash |-> hashState.hash,
                    proposalLength |-> len]
  /\ UNCHANGED <<prEnv, accountId, balance, hashState, publicProps, prOut>>
  /\ UNCHANGED <<exVars, callVars, paVars, qrVars>>

\* The TxButton is clicked: democracy.propose is started with params, and
\* onStart closes the modal.
Submit ==
  /\ PrOpen
  /\ ~SubmitDisabled
  /\ prOut' = [tx |-> "democracy.propose", accountId |-> accountId,
               params |-> ProposeParams]
  /\ UNCHANGED <<prEnv, accountId, balance, hashState, publicProps, preimage>>
  /\ UNCHANGED <<exVars, callVars, paVars, qrVars>>

InitPropose == PrInit /\ IdleEx /\ IdleCall /\ IdlePa /\ IdleQr

NextPropose == \/ SetAccountId \/ SetBalance \/ ChangeHash
               \/ PublicPropsResult \/ PreimageResult \/ Submit

SpecPropose == InitPropose /\ [][NextPropose]_vars

(***************************************************************************)
(* Claims about the Propose modal, checked under SpecPropose               *)
(***************************************************************************)
Defined(x) == x # Undefined /\ x # Null

AllDefined(params) == \A i \in 1..Len(params) : Defined(params[i])

\* C13: whenever the Submit button is enabled, an account is selected, the
\* entered balance is at least minimumDeposit, the entered hash is a 0x-prefixed
\* hex string of 256 bits, publicProps has loaded and, when only the preimage
\* pallet offers notePreimage, the preimage has resolved; so every entry of
\* the params of democracy.propose is defined in each of the three layouts,
\* and so is every entry of the params a transaction was started with.
C13_EnabledOnlyWhenComplete ==
  /\ (PrOpen /\ ~SubmitDisabled) =>
       /\ accountId \notin {Null, Str("")}
       /\ balance # Undefined
       /\ balance.n >= prEnv.minimumDeposit.n
       /\ hashState.hash # Undefined
       /\ Len(hashState.hash.s) = 66
       /\ SubSeq(hashState.hash.s, 1, 2) = "0x"
       /\ \A i \in 3..66 : SubSeq(hashState.hash.s, i, i) \in HexChars
       /\ publicProps # Undefined
       /\ (preimageOnly => preimage # Undefined)
       /\ Len(ProposeParams) = (IF prEnv.proposeArgs = 3 THEN 3 ELSE 2)
       /\ AllDefined(ProposeParams)
  /\ prOut # Null => AllDefined(prOut.params)

\* C13 witness: with only the preimage pallet offering notePreimage and a
\* two-argument propose, a proposal was submitted with the preimage lookup and
\* the balance as params.
C13_Witness ==
  /\ prOut # Null
  /\ preimageOnly /\ prEnv.proposeArgs = 2
  /\ prOut.params[1].t = "Lookup"
  /\ prOut.params[1].hash = hashState.hash
  /\ prOut.params[2] = balance

====
